---- MODULE Spec2Model ----
(***************************************************************************)
(* Model of the rule-set generators geosite.py, geoip.py and generate.py.  *)
(* A Python str is a sequence of one-character strings; a Python set is a  *)
(* set; a sorted list is a sequence.                                       *)
(***************************************************************************)
EXTENDS Integers, Sequences, FiniteSets, TLC

VARIABLES
    \* one line through the domain classifiers
    line,          \* the raw line handed to the domain classifiers
    gs_res,        \* geosite.parse_domain_line(line), once computed
    gen_res,       \* generate.process_domain_line(line), once computed
    \* one line through the IP classifiers
    ip_line,       \* the raw line handed to the IP classifiers
    geoip_res,     \* geoip.parse_ip_line(ip_line), once computed
    genip_res,     \* generate.process_ip_line(ip_line), once computed
    \* one run of an extractor: sources -> classify -> aggregate -> sort -> encode
    extractor,     \* which of the four extracting functions runs
    ex_pc,         \* its position: "fold", "sorted", "again", "written", "reparsed"
    url_i,         \* how many urls the for loop has consumed
    rule_set,      \* the sets the extractor accumulates into
    before_fold,   \* rule_set as it was before the last source was folded
    last_doc,      \* the lines of the last source folded
    repeated,      \* the last source folded held the same lines as the one before
    sorted_out,    \* the sorted lists the extractor returns
    sorted_again,  \* the lists it returns on another run over the same sets
    list_file,     \* the lines write_list wrote
    reparsed,      \* the sets obtained by classifying list_file again
    json_doc,      \* the document write_json handed to json.dump
    \* one call of fetch_content(url, max_retries)
    fetch_pc,      \* "idle", "try" (in the for loop), "returned", "raised"
    max_retries,   \* the parameter
    attempt,       \* the loop variable
    url_doc,       \* the lines the url serves when an attempt succeeds
    tried,         \* what each attempt so far ended with, in order
    slept,         \* the arguments of time.sleep so far, in order
    fetch_lines,   \* the list returned
    \* one run of process_urls(config) from main
    script,        \* "geosite" or "geoip"
    n_jobs,        \* len(config)
    job,           \* the item of config.items() being processed, from 1
    job_named,     \* its output_base is one the compile step picks up
    run_pc,        \* position in process_urls / main
    n_urls,        \* len(urls) of the job
    url_j,         \* how many of them the extractor has consumed
    job_rule_set,  \* the sets the extractor of the job accumulates into
    expected,      \* the merge of the documents of the sources retrieved
    write_k,       \* the next write_* call of the job, from 1
    fs,            \* the output files: "absent", "old" (there before the
                   \* run), "partial" or "written" (by this run)
    job_log,       \* how each job ended, in order
    compiled       \* the files handed to an external compiler

classifyVars == <<line, gs_res, gen_res>>
classifyIpVars == <<ip_line, geoip_res, genip_res>>
extractVars ==
    <<extractor, ex_pc, url_i, rule_set, before_fold, last_doc,
      repeated, sorted_out, sorted_again, list_file, reparsed, json_doc>>
fetchVars ==
    <<fetch_pc, max_retries, attempt, url_doc, tried, slept, fetch_lines>>
driverVars ==
    <<script, n_jobs, job, job_named, run_pc, n_urls, url_j, job_rule_set,
      expected, write_k, fs, job_log, compiled>>
vars == <<classifyVars, classifyIpVars, extractVars, fetchVars, driverVars>>
\* What the actions of one state machine leave alone.
notClassifyVars == <<classifyIpVars, extractVars, fetchVars, driverVars>>
notClassifyIpVars == <<classifyVars, extractVars, fetchVars, driverVars>>
notExtractVars == <<classifyVars, classifyIpVars, fetchVars, driverVars>>
notFetchVars == <<classifyVars, classifyIpVars, extractVars, driverVars>>
notRunVars == <<classifyVars, classifyIpVars, extractVars>>

-----------------------------------------------------------------------------
(* The state machines at rest                                              *)

NotRun == [run |-> FALSE]
NotSorted == [run |-> FALSE]
NotWritten == [run |-> FALSE]

\* The sets an extractor accumulates into, all empty: (all_domains,
\* all_domain_suffixes), (all_ipv4_cidrs, all_ipv6_cidrs), (domains,
\* domain_suffixes) or ip_cidrs.
EmptyRuleSet ==
    [domains |-> {}, domain_suffixes |-> {}, ipv4_cidrs |-> {},
     ipv6_cidrs |-> {}, ip_cidrs |-> {}]

IdleClassify == line = <<>> /\ gs_res = NotRun /\ gen_res = NotRun

IdleClassifyIp == ip_line = <<>> /\ geoip_res = NotRun /\ genip_res = NotRun

IdleExtract ==
    /\ extractor = "none"
    /\ ex_pc = "idle"
    /\ url_i = 0
    /\ rule_set = EmptyRuleSet
    /\ before_fold = EmptyRuleSet
    /\ last_doc = <<>>
    /\ repeated = FALSE
    /\ sorted_out = NotSorted
    /\ sorted_again = NotSorted
    /\ list_file = <<>>
    /\ reparsed = EmptyRuleSet
    /\ json_doc = NotWritten

IdleFetch ==
    /\ fetch_pc = "idle"
    /\ max_retries = 0
    /\ attempt = 0
    /\ url_doc = <<>>
    /\ tried = <<>>
    /\ slept = <<>>
    /\ fetch_lines = <<>>

IdleDriver ==
    /\ script = "none"
    /\ n_jobs = 0
    /\ job = 0
    /\ job_named = FALSE
    /\ run_pc = "idle"
    /\ n_urls = 0
    /\ url_j = 0
    /\ job_rule_set = EmptyRuleSet
    /\ expected = EmptyRuleSet
    /\ write_k = 0
    /\ fs = <<>>
    /\ job_log = <<>>
    /\ compiled = {}

-----------------------------------------------------------------------------
(* Characters and strings                                                  *)

\* The printable ASCII characters in code-point order, 32 (space) first; the
\* double quote, the backslash and the backtick are written by name.
AsciiTable ==
    << " ", "!", "QUOTE", "#", "$", "%", "&", "'", "(", ")", "*", "+", ",", "-",
       ".", "/", "0", "1", "2", "3", "4", "5", "6", "7", "8", "9", ":", ";",
       "<", "=", ">", "?", "@", "A", "B", "C", "D", "E", "F", "G", "H", "I",
       "J", "K", "L", "M", "N", "O", "P", "Q", "R", "S", "T", "U", "V", "W",
       "X", "Y", "Z", "[", "BACKSLASH", "]", "^", "_", "BACKTICK", "a", "b", "c", "d", "e",
       "f", "g", "h", "i", "j", "k", "l", "m", "n", "o", "p", "q", "r", "s",
       "t", "u", "v", "w", "x", "y", "z", "{", "|", "}", "~" >>

\* ord(c) of Python for a printable ASCII character.
Ord(c) == 31 + CHOOSE i \in 1..Len(AsciiTable) : AsciiTable[i] = c

CharRange(lo, hi) == { AsciiTable[i - 31] : i \in Ord(lo)..Ord(hi) }

Digits == CharRange("0", "9")
UpperChars == CharRange("A", "Z")
LowerChars == CharRange("a", "z")
AlphaChars == UpperChars \cup LowerChars
AlnumChars == AlphaChars \cup Digits
\* \w of Python's re for ASCII text.
WordChars == AlnumChars \cup {"_"}
\* What str.strip() removes, among the characters of the model.
Whitespace == {" "}

\* s[i:] of Python with a 1-based i.
Drop(s, n) == SubSeq(s, n + 1, Len(s))
Take(s, n) == SubSeq(s, 1, n)

\* str.startswith
StartsWith(s, p) == Len(s) >= Len(p) /\ Take(s, Len(p)) = p

\* str.lstrip(chars)
RECURSIVE LStrip(_, _)
LStrip(s, chars) ==
    IF s # <<>> /\ s[1] \in chars THEN LStrip(Tail(s), chars) ELSE s

\* str.rstrip(chars)
RECURSIVE RStrip(_, _)
RStrip(s, chars) ==
    IF s # <<>> /\ s[Len(s)] \in chars
    THEN RStrip(Take(s, Len(s) - 1), chars)
    ELSE s

\* str.strip()
Strip(s) == RStrip(LStrip(s, Whitespace), Whitespace)

\* Index of the first character of s that is in chars, or Len(s) + 1.
RECURSIVE FirstOf(_, _, _)
FirstOf(s, chars, i) ==
    IF i > Len(s) \/ s[i] \in chars THEN i ELSE FirstOf(s, chars, i + 1)

\* str.split(sep) for a one-character separator: all the fields.
RECURSIVE Split(_, _)
Split(s, sep) ==
    LET i == FirstOf(s, {sep}, 1)
    IN  IF i > Len(s) THEN <<s>>
        ELSE <<Take(s, i - 1)>> \o Split(Drop(s, i), sep)

\* Python's < on two str: code-point lexicographic order.
RECURSIVE StrLess(_, _)
StrLess(a, b) ==
    IF b = <<>> THEN FALSE
    ELSE IF a = <<>> THEN TRUE
    ELSE IF a[1] # b[1] THEN Ord(a[1]) < Ord(b[1])
    ELSE StrLess(Tail(a), Tail(b))

-----------------------------------------------------------------------------
(* Domain validation                                                       *)

\* {0,61} between the first and the last character of a label.
MaxInnerLabel == 61

\* [a-zA-Z0-9]([a-zA-Z0-9\-]{0,61}[a-zA-Z0-9])?
IsLabel(l) ==
    /\ Len(l) >= 1
    /\ Len(l) <= MaxInnerLabel + 2
    /\ l[1] \in AlnumChars
    /\ l[Len(l)] \in AlnumChars
    /\ \A i \in 1..Len(l) : l[i] \in AlnumChars \cup {"-"}

\* ^(label\.)+[a-zA-Z]{2,}$ : the pattern of both files.
is_valid_domain(domain) ==
    LET labels == Split(domain, ".")
        n == Len(labels)
    IN  /\ n >= 2
        /\ \A i \in 1..(n - 1) : IsLabel(labels[i])
        /\ Len(labels[n]) >= 2
        /\ \A i \in 1..Len(labels[n]) : labels[n][i] \in AlphaChars

-----------------------------------------------------------------------------
(* Line classifiers for domains                                            *)

KwDomain == <<"D", "O", "M", "A", "I", "N", ",">>
KwDomainSuffix ==
    <<"D", "O", "M", "A", "I", "N", "-", "S", "U", "F", "F", "I", "X", ",">>
KwServer == <<"s", "e", "r", "v", "e", "r", "=", "/">>

\* patterns['domain_suffix'] of geosite.py: ^(\.|(\+\.))
MatchSuffixMarker(l) == StartsWith(l, <<".">>) \/ StartsWith(l, <<"+", ".">>)

\* ^DOMAIN,(.+)$ and ^DOMAIN-SUFFIX,(.+)$ : the keyword and at least one more
\* character (a line holds no newline).
MatchKeywordLine(l, kw) == StartsWith(l, kw) /\ Len(l) > Len(kw)

\* ^server=/([^/]+)/ : group(1) is the run of non-slash characters after the
\* keyword, which must be non-empty and followed by a slash.
ServerGroup(l) == SubSeq(l, Len(KwServer) + 1, FirstOf(l, {"/"}, Len(KwServer) + 1) - 1)
MatchServerLine(l) ==
    /\ StartsWith(l, KwServer)
    /\ ServerGroup(l) # <<>>
    /\ FirstOf(l, {"/"}, Len(KwServer) + 1) <= Len(l)

NoEntries == [domains |-> {}, domain_suffixes |-> {}]

\* geosite.py parse_domain_line: the (domains, domain_suffixes) pair of sets.
parse_domain_line(raw) ==
    LET l == Strip(raw)
    IN  IF is_valid_domain(l)
            THEN [domains |-> {l}, domain_suffixes |-> {}]
        ELSE IF MatchSuffixMarker(l)
            THEN [domains |-> {}, domain_suffixes |-> {LStrip(l, {".", "+"})}]
        ELSE IF MatchKeywordLine(l, KwDomain)
            THEN [domains |-> {Drop(l, Len(KwDomain))}, domain_suffixes |-> {}]
        ELSE IF MatchKeywordLine(l, KwDomainSuffix)
            THEN [domains |-> {}, domain_suffixes |-> {Drop(l, Len(KwDomainSuffix))}]
        ELSE IF MatchServerLine(l)
            THEN [domains |-> {ServerGroup(l)}, domain_suffixes |-> {}]
        ELSE NoEntries

\* The characters re.split(r'[#<U+FF1B>]', line) splits at: the number sign
\* and the fullwidth semicolon, written by its code point.
CommentChars == {"#", "U+FF1B"}

\* A Python Optional[str]: <<>> is None, <<v>> is the string v.
None == <<>>
Some(v) == <<v>>

\* domain if is_valid_domain(domain) else None
ValidOrNone(domain) == IF is_valid_domain(domain) THEN Some(domain) ELSE None

\* generate.py process_domain_line: the (type, value) pair.
process_domain_line(raw) ==
    LET l0 == Strip(raw)
        l == Strip(Take(l0, FirstOf(l0, CommentChars, 1) - 1))
    IN  IF l = <<>>
            THEN [type |-> "None", value |-> None]
        ELSE IF StartsWith(l, KwDomain)
            THEN [type |-> "domain",
                  value |-> ValidOrNone(Strip(Drop(l, Len(KwDomain))))]
        ELSE IF StartsWith(l, KwDomainSuffix)
            THEN [type |-> "domain-suffix",
                  value |-> ValidOrNone(Strip(Drop(l, Len(KwDomainSuffix))))]
        ELSE IF StartsWith(l, <<".">>)
            THEN [type |-> "domain-suffix",
                  value |-> ValidOrNone(LStrip(l, {"."}))]
        ELSE IF is_valid_domain(l)
            THEN [type |-> "domain", value |-> Some(l)]
        ELSE [type |-> "None", value |-> None]

\* The body of the loop of generate.py process_domain_urls for one line: what
\* the line adds to (domains, domain_suffixes). `if processed` drops None and
\* the empty string.
process_domain_entry(raw) ==
    LET r == process_domain_line(raw)
        kept == r.value # None /\ r.value[1] # <<>>
    IN  [domains |-> IF kept /\ r.type = "domain" THEN {r.value[1]} ELSE {},
         domain_suffixes |->
            IF kept /\ r.type = "domain-suffix" THEN {r.value[1]} ELSE {}]

-----------------------------------------------------------------------------
(* IP networks: the ipaddress module                                       *)

HexLower == CharRange("a", "f")
HexUpper == CharRange("A", "F")
HexChars == Digits \cup HexLower \cup HexUpper

DigitVal(c) == Ord(c) - Ord("0")

HexVal(c) ==
    IF c \in Digits THEN DigitVal(c)
    ELSE IF c \in HexLower THEN Ord(c) - Ord("a") + 10
    ELSE Ord(c) - Ord("A") + 10

\* int(s) for a string of decimal digits.
RECURSIVE ParseDec(_)
ParseDec(s) ==
    IF s = <<>> THEN 0
    ELSE 10 * ParseDec(Take(s, Len(s) - 1)) + DigitVal(s[Len(s)])

\* int(s, 16) for a string of hexadecimal digits.
RECURSIVE ParseHex(_)
ParseHex(s) ==
    IF s = <<>> THEN 0
    ELSE 16 * ParseHex(Take(s, Len(s) - 1)) + HexVal(s[Len(s)])

AllIn(s, chars) == \A i \in 1..Len(s) : s[i] \in chars

RECURSIVE Pow2(_)
Pow2(n) == IF n = 0 THEN 1 ELSE 2 * Pow2(n - 1)

\* IPv4Address._parse_octet: decimal digits, at most 3, no leading zero, <= 255.
IsOctet(o) ==
    /\ Len(o) \in 1..3
    /\ AllIn(o, Digits)
    /\ (Len(o) > 1 => o[1] # "0")
    /\ ParseDec(o) <= 255

\* _prefix_from_prefix_string: ASCII decimal digits, 0 <= int <= max_prefixlen.
\* (The patterns of the callers admit at most three digits.)
IsPrefixLen(p, max) ==
    /\ Len(p) \in 1..3
    /\ AllIn(p, Digits)
    /\ ParseDec(p) <= max

\* The address as its groups, most significant first (4 octets or 8 hextets):
\* comparing these sequences is comparing the addresses as integers.
\* With strict=True the bits after the prefix must be zero.
HostBitsZero(groups, width, prefixlen) ==
    \A i \in 1..Len(groups) :
        IF prefixlen >= width * i THEN TRUE
        ELSE IF prefixlen <= width * (i - 1) THEN groups[i] = 0
        ELSE groups[i] % Pow2(width * i - prefixlen) = 0

NotANetwork == [ok |-> FALSE]

\* ipaddress.IPv4Network(s): ok, with network_address and prefixlen, or
\* ValueError; without "/prefix" the prefix length is 32.
IPv4Network(s) ==
    LET halves == Split(s, "/")
        octets == Split(halves[1], ".")
    IN  IF /\ Len(halves) <= 2
           /\ Len(octets) = 4
           /\ \A i \in 1..4 : IsOctet(octets[i])
           /\ (Len(halves) = 2 => IsPrefixLen(halves[2], 32))
        THEN LET addr == [i \in 1..4 |-> ParseDec(octets[i])]
                 plen == IF Len(halves) = 2 THEN ParseDec(halves[2]) ELSE 32
             IN  IF HostBitsZero(addr, 8, plen)
                 THEN [ok |-> TRUE, family |-> 4, network_address |-> addr,
                       prefixlen |-> plen]
                 ELSE NotANetwork
        ELSE NotANetwork

\* IPv6Address._parse_hextet
IsHextet(h) == Len(h) \in 1..4 /\ AllIn(h, HexChars)

\* IPv6Address._ip_int_from_string on the colon-separated parts (no dotted
\* quad: the callers' patterns admit no "."): the 8 hextets, or <<>> on error.
IPv6Groups(parts) ==
    LET n == Len(parts)
        skips == { i \in 2..(n - 1) : parts[i] = <<>> }
    IN  IF n < 3 \/ n > 9 \/ Cardinality(skips) > 1 THEN <<>>
        ELSE IF skips = {}
        THEN IF n = 8 /\ \A i \in 1..8 : IsHextet(parts[i])
             THEN [i \in 1..8 |-> ParseHex(parts[i])]
             ELSE <<>>
        ELSE LET k == CHOOSE i \in skips : TRUE
                 hi == IF parts[1] = <<>> THEN k - 2 ELSE k - 1
                 lo == IF parts[n] = <<>> THEN n - k - 1 ELSE n - k
             IN  IF /\ (parts[1] = <<>> => hi = 0)
                    /\ (parts[n] = <<>> => lo = 0)
                    /\ 8 - (hi + lo) >= 1
                    /\ \A i \in 1..hi : IsHextet(parts[i])
                    /\ \A i \in (n - lo + 1)..n : IsHextet(parts[i])
                 THEN [i \in 1..8 |->
                          IF i <= hi THEN ParseHex(parts[i])
                          ELSE IF i > 8 - lo THEN ParseHex(parts[n - (8 - i)])
                          ELSE 0]
                 ELSE <<>>

\* ipaddress.IPv6Network(s); without "/prefix" the prefix length is 128.
IPv6Network(s) ==
    LET halves == Split(s, "/")
        groups == IPv6Groups(Split(halves[1], ":"))
    IN  IF /\ Len(halves) <= 2
           /\ groups # <<>>
           /\ (Len(halves) = 2 => IsPrefixLen(halves[2], 128))
        THEN LET plen == IF Len(halves) = 2 THEN ParseDec(halves[2]) ELSE 128
             IN  IF HostBitsZero(groups, 16, plen)
                 THEN [ok |-> TRUE, family |-> 6, network_address |-> groups,
                       prefixlen |-> plen]
                 ELSE NotANetwork
        ELSE NotANetwork

\* ipaddress.ip_network(s): IPv4Network, else IPv6Network.
ip_network(s) ==
    LET v4 == IPv4Network(s)
    IN  IF v4.ok THEN v4 ELSE IPv6Network(s)

\* < on two sequences of integers of the same length (addresses as integers).
RECURSIVE GroupsLess(_, _)
GroupsLess(a, b) ==
    IF a = <<>> \/ b = <<>> THEN FALSE
    ELSE IF a[1] # b[1] THEN a[1] < b[1]
    ELSE GroupsLess(Tail(a), Tail(b))

\* The sort key of sort_ip_cidrs: (network_address, prefixlen).
CidrKey(x) ==
    LET net == ip_network(x)
    IN  <<net.network_address, net.prefixlen>>

\* Python's < on two such keys.
KeyLess(k1, k2) ==
    \/ GroupsLess(k1[1], k2[1])
    \/ k1[1] = k2[1] /\ k1[2] < k2[2]

-----------------------------------------------------------------------------
(* Line classifiers for IP networks                                        *)

\* \b of Python's re before position i of s (1-based; i = Len(s) + 1 is the end).
WordBoundary(s, i) ==
    LET before == i > 1 /\ s[i - 1] \in WordChars
        after == i <= Len(s) /\ s[i] \in WordChars
    IN  before # after

\* End of the run of characters of chars that starts at i (i - 1 if empty).
RECURSIVE RunEnd(_, _, _)
RunEnd(s, chars, i) ==
    IF i <= Len(s) /\ s[i] \in chars THEN RunEnd(s, chars, i + 1) ELSE i - 1

\* \d{1,max} followed by the character `then`, from position i: the position
\* after `then`, or 0. (Greedy with backtracking: the whole run of digits.)
DigitsThen(s, i, max, then) ==
    LET e == RunEnd(s, Digits, i)
    IN  IF e >= i /\ e - i + 1 <= max /\ e < Len(s) /\ s[e + 1] = then
        THEN e + 2 ELSE 0

\* \d{1,max}\b from position i: the last position matched, or 0.
DigitsBoundary(s, i, max) ==
    LET e == RunEnd(s, Digits, i)
    IN  IF e >= i /\ e - i + 1 <= max /\ WordBoundary(s, e + 1) THEN e ELSE 0

\* ipv4_pattern \b(\d{1,3}\.\d{1,3}\.\d{1,3}\.\d{1,3}/\d{1,2})\b matched at
\* position i: the last position of the match, or 0.
MatchIPv4At(s, i) ==
    IF ~WordBoundary(s, i) THEN 0
    ELSE LET a == DigitsThen(s, i, 3, ".")
             b == IF a = 0 THEN 0 ELSE DigitsThen(s, a, 3, ".")
             c == IF b = 0 THEN 0 ELSE DigitsThen(s, b, 3, ".")
             d == IF c = 0 THEN 0 ELSE DigitsThen(s, c, 3, "/")
         IN  IF d = 0 THEN 0 ELSE DigitsBoundary(s, d, 2)

\* ipv6_pattern \b([0-9a-fA-F:]+/\d{1,3})\b matched at position i.
MatchIPv6At(s, i) ==
    IF ~WordBoundary(s, i) THEN 0
    ELSE LET e == RunEnd(s, HexChars \cup {":"}, i)
         IN  IF e >= i /\ e < Len(s) /\ s[e + 1] = "/"
             THEN DigitsBoundary(s, e + 2, 3) ELSE 0

\* re.findall(ipv4_pattern, s) from position i on: the matches, left to right,
\* not overlapping.
RECURSIVE FindAllIPv4(_, _)
FindAllIPv4(s, i) ==
    IF i > Len(s) THEN <<>>
    ELSE LET e == MatchIPv4At(s, i)
         IN  IF e > 0 THEN <<SubSeq(s, i, e)>> \o FindAllIPv4(s, e + 1)
             ELSE FindAllIPv4(s, i + 1)

\* re.findall(ipv6_pattern, s)
RECURSIVE FindAllIPv6(_, _)
FindAllIPv6(s, i) ==
    IF i > Len(s) THEN <<>>
    ELSE LET e == MatchIPv6At(s, i)
         IN  IF e > 0 THEN <<SubSeq(s, i, e)>> \o FindAllIPv6(s, e + 1)
             ELSE FindAllIPv6(s, i + 1)

Range(seq) == { seq[i] : i \in 1..Len(seq) }

\* geoip.py parse_ip_line: the (ipv4_cidrs, ipv6_cidrs) pair of sets.
parse_ip_line(l) ==
    [ipv4_cidrs |-> { m \in Range(FindAllIPv4(l, 1)) : IPv4Network(m).ok },
     ipv6_cidrs |-> { m \in Range(FindAllIPv6(l, 1)) : IPv6Network(m).ok }]

\* geoip.py remove_comments: the stripped lines that are neither empty nor
\* start with '#' or ';'.
RECURSIVE remove_comments(_)
remove_comments(lines) ==
    IF lines = <<>> THEN <<>>
    ELSE LET l == Strip(Head(lines))
             rest == remove_comments(Tail(lines))
         IN  IF l # <<>> /\ l[1] \notin {"#", ";"} THEN <<l>> \o rest ELSE rest

KwIpCidr == <<"I", "P", "-", "C", "I", "D", "R">>
\* The keywords as write_list writes them.
KwIpCidrLine == KwIpCidr \o <<",">>
KwIpCidr6Line == KwIpCidr \o <<"6", ",">>

\* ^\d{1,3}\.\d{1,3}\.\d{1,3}\.\d{1,3}(/\d{1,2})?$ of generate.py
MatchesIPv4Pattern(s) ==
    LET halves == Split(s, "/")
        octets == Split(halves[1], ".")
    IN  /\ Len(halves) <= 2
        /\ Len(octets) = 4
        /\ \A i \in 1..4 : Len(octets[i]) \in 1..3 /\ AllIn(octets[i], Digits)
        /\ (Len(halves) = 2 => Len(halves[2]) \in 1..2 /\ AllIn(halves[2], Digits))

\* ^([0-9a-fA-F]{1,4}:){7}[0-9a-fA-F]{1,4}(/\d{1,3})?$ of generate.py
MatchesIPv6Pattern(s) ==
    LET halves == Split(s, "/")
        groups == Split(halves[1], ":")
    IN  /\ Len(halves) <= 2
        /\ Len(groups) = 8
        /\ \A i \in 1..8 : IsHextet(groups[i])
        /\ (Len(halves) = 2 => Len(halves[2]) \in 1..3 /\ AllIn(halves[2], Digits))

\* generate.py is_valid_ip_cidr
is_valid_ip_cidr(s) == MatchesIPv4Pattern(s) \/ MatchesIPv6Pattern(s)

\* [,\s] of the pattern of extract_ip_cidr, among the characters of the model.
SeparatorChars == {","} \cup Whitespace

\* group(2) of re.search(r'(IP-CIDR6?[,\s]+)?(\S+)', l) for a stripped,
\* non-empty l: the token after the keyword and its separators; when nothing
\* follows the separators the engine backtracks, to a final comma given back
\* by [,\s]+ or else to the first token of the line.
SearchGroup2(l) ==
    LET firstToken == Take(l, FirstOf(l, Whitespace, 1) - 1)
        k == IF StartsWith(l, KwIpCidr \o <<"6">>)
                /\ Len(l) > Len(KwIpCidr) + 1
                /\ l[Len(KwIpCidr) + 2] \in SeparatorChars
             THEN Len(KwIpCidr) + 1 ELSE Len(KwIpCidr)
        e == RunEnd(l, SeparatorChars, k + 1)
    IN  IF ~StartsWith(l, KwIpCidr) \/ e <= k THEN firstToken
        ELSE IF e < Len(l) THEN SubSeq(l, e + 1, FirstOf(l, Whitespace, e + 1) - 1)
        ELSE IF e > k + 1 THEN <<l[e]>>
        ELSE firstToken

\* generate.py extract_ip_cidr
extract_ip_cidr(l) ==
    IF l # <<>> /\ is_valid_ip_cidr(SearchGroup2(l))
    THEN Some(SearchGroup2(l)) ELSE None

\* generate.py process_ip_line
process_ip_line(raw) ==
    LET l0 == Strip(raw)
        l == Strip(Take(l0, FirstOf(l0, CommentChars, 1) - 1))
    IN  IF l = <<>> THEN None ELSE extract_ip_cidr(l)

-----------------------------------------------------------------------------
(* Classifying one line: the inputs                                        *)

\* Longest body of an input line of the classifier check.
MaxBody == 4

BodyChars == {"a", "Z", "1", "-", "."}

RECURSIVE StringsUpTo(_, _)
StringsUpTo(chars, n) ==
    IF n = 0 THEN {<<>>}
    ELSE LET shorter == StringsUpTo(chars, n - 1)
         IN  shorter \cup { Append(s, c) : s \in shorter, c \in chars }

Bodies == StringsUpTo(BodyChars, MaxBody)

LinePrefixes ==
    { <<>>, <<".">>, <<"+", ".">>, <<" ">>, KwDomain, KwDomainSuffix,
      KwDomain \o <<" ">>, KwServer }

LinePostfixes == { <<>>, <<" ">>, <<"/">>, <<" ", "#", "c">> }

Lines == { p \o b \o q : p \in LinePrefixes, b \in Bodies, q \in LinePostfixes }

InitClassify ==
    /\ IdleClassifyIp
    /\ IdleExtract
    /\ IdleFetch
    /\ IdleDriver
    /\ line \in Lines
    /\ gs_res = NotRun
    /\ gen_res = NotRun

\* geosite.py: parse_domain_line(line) is called.
ParseDomainLine ==
    /\ gs_res = NotRun
    /\ gs_res' = [run |-> TRUE, out |-> parse_domain_line(line)]
    /\ UNCHANGED <<line, gen_res>>
    /\ UNCHANGED notClassifyVars

\* generate.py: process_domain_line(line) is called.
ProcessDomainLine ==
    /\ gen_res = NotRun
    /\ gen_res' = [run |-> TRUE, out |-> process_domain_line(line)]
    /\ UNCHANGED <<line, gs_res>>
    /\ UNCHANGED notClassifyVars

NextClassify == ParseDomainLine \/ ProcessDomainLine

\* The valid domains among the inputs.
ValidSuffixes == { s \in Bodies : is_valid_domain(s) }

\* parse_domain_line returned DomainSuffix(s).
GsIsSuffix(s) ==
    gs_res.run /\ gs_res.out = [domains |-> {}, domain_suffixes |-> {s}]

\* process_domain_line returned DomainSuffix(s).
GenIsSuffix(s) ==
    gen_res.run /\ gen_res.out = [type |-> "domain-suffix", value |-> Some(s)]

SuffixForms(s) == { <<".">> \o s, <<"+", ".">> \o s, KwDomainSuffix \o s }

\* C1: for every valid s, both classifiers return DomainSuffix(s) for each of
\* ".s", "+.s" and "DOMAIN-SUFFIX,s".
C1_SuffixFormsAgree ==
    \A s \in ValidSuffixes :
        line \in SuffixForms(s) =>
            /\ gs_res.run => GsIsSuffix(s)
            /\ gen_res.run => GenIsSuffix(s)

\* C1, the case reached: process_domain_line has classified "+.s".
C1_PlusDotClassified ==
    \E s \in ValidSuffixes : line = <<"+", ".">> \o s /\ gen_res.run /\ gs_res.run

-----------------------------------------------------------------------------
(* Classifying one line for IP networks                                    *)

\* What can stand before the address on an input line.
IpLinePrefixes == { <<>>, KwIpCidrLine, KwIpCidr6Line }

\* Addresses of the input lines: IPv4 and IPv6, full and compressed, one with
\* host bits for every prefix but the longest, one that is not an address.
IpAddresses ==
    { <<"1", "0", ".", "0", ".", "0", ".", "0">>,
      <<"1", ".", "2", ".", "3", ".", "4">>,
      <<"2", "5", "6", ".", "0", ".", "0", ".", "0">>,
      <<":", ":">>,
      <<":", ":", "1">>,
      <<"2", "0", "0", "1", ":", "d", "b", "8", ":", ":">>,
      <<"2", "0", "0", "1", ":", "0", ":", "0", ":", "0", ":", "0", ":", "0", ":", "0", ":", "0">>,
      <<"1", ":", "2", ":", "3", ":", "4", ":", "5", ":", "6", ":", "7", ":", "8">> }

\* The "/prefix" of an input line; none for a bare address.
IpPrefixLens ==
    { <<>>, <<"/", "8">>, <<"/", "1", "6">>, <<"/", "3", "2">>, <<"/", "0">>, <<"/", "1", "2", "8">> }

\* What can follow on the line: nothing, another network, an option of the
\* rule, a comment.
IpLinePostfixes ==
    { <<>>,
      \* " 9.0.0.0/8"
      <<" ", "9", ".", "0", ".", "0", ".", "0", "/", "8">>,
      \* ",no-resolve"
      <<",", "n", "o", "-", "r", "e", "s", "o", "l", "v", "e">>,
      \* " # c"
      <<" ", "#", " ", "c">> }

IpLines ==
    { p \o a \o n \o q :
        p \in IpLinePrefixes, a \in IpAddresses, n \in IpPrefixLens,
        q \in IpLinePostfixes }

InitClassifyIp ==
    /\ IdleClassify
    /\ IdleExtract
    /\ IdleFetch
    /\ IdleDriver
    /\ ip_line \in IpLines
    /\ geoip_res = NotRun
    /\ genip_res = NotRun

\* geoip.py: parse_ip_line(line) is called.
ParseIpLine ==
    /\ geoip_res = NotRun
    /\ geoip_res' = [run |-> TRUE, out |-> parse_ip_line(ip_line)]
    /\ UNCHANGED <<ip_line, genip_res>>
    /\ UNCHANGED notClassifyIpVars

\* generate.py: process_ip_line(line) is called.
ProcessIpLine ==
    /\ genip_res = NotRun
    /\ genip_res' = [run |-> TRUE, out |-> process_ip_line(ip_line)]
    /\ UNCHANGED <<ip_line, geoip_res>>
    /\ UNCHANGED notClassifyIpVars

NextClassifyIp == ParseIpLine \/ ProcessIpLine

\* The bare addresses among the inputs, by family, and the valid networks
\* written with a prefix.
BareIPv4 == { a \in IpAddresses : IPv4Network(a).ok }
BareIPv6 == { a \in IpAddresses : IPv6Network(a).ok }
ValidIPv4Cidrs ==
    { a \o n : a \in IpAddresses, n \in IpPrefixLens \ {<<>>} } \cap
    { c \in { a \o n : a \in IpAddresses, n \in IpPrefixLens } : IPv4Network(c).ok }
ValidIPv6Cidrs ==
    { a \o n : a \in IpAddresses, n \in IpPrefixLens \ {<<>>} } \cap
    { c \in { a \o n : a \in IpAddresses, n \in IpPrefixLens } : IPv6Network(c).ok }

\* Both classifiers, as far as they have run, returned exactly IPCIDR(c) of
\* the family given.
IsIpCidr(c, family) ==
    /\ geoip_res.run =>
        geoip_res.out =
            [ipv4_cidrs |-> IF family = 4 THEN {c} ELSE {},
             ipv6_cidrs |-> IF family = 6 THEN {c} ELSE {}]
    /\ genip_res.run => genip_res.out = Some(c)

\* C11: a bare IPv4 address, alone or after "IP-CIDR,", is stored with the
\* prefix /32 and a bare IPv6 address, alone or after "IP-CIDR6,", with /128;
\* the keyword followed by a valid network c is stored as c. For both
\* parse_ip_line and process_ip_line.
C11_BareAddressGetsFullPrefix ==
    /\ \A a \in BareIPv4 :
        ip_line \in {a, KwIpCidrLine \o a} => IsIpCidr(a \o <<"/", "3", "2">>, 4)
    /\ \A a \in BareIPv6 :
        ip_line \in {a, KwIpCidr6Line \o a} =>
            IsIpCidr(a \o <<"/", "1", "2", "8">>, 6)
    /\ \A c \in ValidIPv4Cidrs : ip_line = KwIpCidrLine \o c => IsIpCidr(c, 4)
    /\ \A c \in ValidIPv6Cidrs : ip_line = KwIpCidr6Line \o c => IsIpCidr(c, 6)

\* C11, the case reached: both classifiers have run on a bare IPv4 address.
C11_BareIPv4Classified ==
    /\ ip_line \in BareIPv4
    /\ geoip_res.run
    /\ genip_res.run

\* The conditions of the if/elif chain of geosite.py parse_domain_line, in
\* order, for a raw line.
ParseDomainRules(raw) ==
    LET l == Strip(raw)
    IN  << is_valid_domain(l), MatchSuffixMarker(l),
           MatchKeywordLine(l, KwDomain), MatchKeywordLine(l, KwDomainSuffix),
           MatchServerLine(l) >>

\* The conditions of the if/elif chain of generate.py process_domain_line.
ProcessDomainRules(raw) ==
    LET l0 == Strip(raw)
        l == Strip(Take(l0, FirstOf(l0, CommentChars, 1) - 1))
    IN  << StartsWith(l, KwDomain), StartsWith(l, KwDomainSuffix),
           StartsWith(l, <<".">>), is_valid_domain(l) >>

\* The two rules of geoip.py parse_ip_line: the IPv4 pattern and the IPv6
\* pattern, each with the validation of its matches.
ParseIpRules(raw) ==
    << { m \in Range(FindAllIPv4(raw, 1)) : IPv4Network(m).ok } # {},
       { m \in Range(FindAllIPv6(raw, 1)) : IPv6Network(m).ok } # {} >>

\* How many of the rules are true.
RulesTrue(rules) == Cardinality({ i \in 1..Len(rules) : rules[i] })

\* C13: every line classifier contributes at most one entry for a line, and
\* at most one of its rules is true of the line. For parse_domain_line,
\* process_domain_line and parse_ip_line.
C13_LineMatchesAtMostOneRule ==
    /\ gs_res.run =>
        /\ Cardinality(gs_res.out.domains)
             + Cardinality(gs_res.out.domain_suffixes) <= 1
        /\ RulesTrue(ParseDomainRules(line)) <= 1
    /\ gen_res.run =>
        /\ Cardinality(process_domain_entry(line).domains)
             + Cardinality(process_domain_entry(line).domain_suffixes) <= 1
        /\ RulesTrue(ProcessDomainRules(line)) <= 1
    /\ geoip_res.run =>
        /\ Cardinality(geoip_res.out.ipv4_cidrs)
             + Cardinality(geoip_res.out.ipv6_cidrs) <= 1
        /\ RulesTrue(ParseIpRules(ip_line)) <= 1

\* C13, the case reached: parse_ip_line has classified a line that holds two
\* networks.
C13_TwoNetworksOnOneLine ==
    /\ geoip_res.run
    /\ Cardinality(geoip_res.out.ipv4_cidrs \cup geoip_res.out.ipv6_cidrs) >= 2

-----------------------------------------------------------------------------
(* The extractors: aggregate, sort, encode as a list, classify again       *)

\* extract_domains of geosite.py, extract_ip_cidrs of geoip.py,
\* process_domain_urls and process_ip_urls of generate.py.
Extractors ==
    {"extract_domains", "extract_ip_cidrs", "process_domain_urls", "process_ip_urls"}

DomainExtractors == {"extract_domains", "process_domain_urls"}

\* What one line contributes, by extractor.
LineEntries(fn, l) ==
    CASE fn = "extract_domains" ->
            [EmptyRuleSet EXCEPT !.domains = parse_domain_line(l).domains,
                !.domain_suffixes = parse_domain_line(l).domain_suffixes]
      [] fn = "process_domain_urls" ->
            [EmptyRuleSet EXCEPT !.domains = process_domain_entry(l).domains,
                !.domain_suffixes = process_domain_entry(l).domain_suffixes]
      [] fn = "extract_ip_cidrs" ->
            [EmptyRuleSet EXCEPT !.ipv4_cidrs = parse_ip_line(l).ipv4_cidrs,
                !.ipv6_cidrs = parse_ip_line(l).ipv6_cidrs]
      [] fn = "process_ip_urls" ->
            [EmptyRuleSet EXCEPT !.ip_cidrs =
                IF process_ip_line(l) # None /\ process_ip_line(l)[1] # <<>>
                THEN {process_ip_line(l)[1]} ELSE {}]

\* set.update(other) and set.add(x) with other = {x}: a toggling update is
\* the slip the idempotence of aggregation would expose.
SetSymmetricDifferenceUpdate(s, other) == (s \ other) \cup (other \ s)
SetUpdate(s, other) == s \cup other

\* all_domains.update(domains); all_domain_suffixes.update(domain_suffixes)
\* and their counterparts.
Merge(rs, entries) ==
    [f \in DOMAIN rs |-> SetUpdate(rs[f], entries[f])]

\* sorted(s) for a set of str.
RECURSIVE SortStrings(_)
SortStrings(s) ==
    IF s = {} THEN <<>>
    ELSE LET m == CHOOSE x \in s : \A y \in s \ {x} : StrLess(x, y)
         IN  <<m>> \o SortStrings(s \ {m})

\* list(s): the elements of a set in an order the hash seed of the run picks.
RECURSIVE Orders(_)
Orders(s) ==
    IF s = {} THEN {<<>>}
    ELSE UNION { { <<x>> \o o : o \in Orders(s \ {x}) } : x \in s }

\* sorted(..., key=...) is stable: an element goes after the elements whose
\* key is not greater than its own. The elements are (key, value) pairs, the
\* key computed once for each element.
RECURSIVE InsertByKey(_, _)
InsertByKey(sorted, kx) ==
    IF sorted = <<>> THEN <<kx>>
    ELSE IF KeyLess(kx[1], Head(sorted)[1]) THEN <<kx>> \o sorted
    ELSE <<Head(sorted)>> \o InsertByKey(Tail(sorted), kx)

RECURSIVE SortKeyed(_)
SortKeyed(keyed) ==
    IF keyed = <<>> THEN <<>>
    ELSE InsertByKey(SortKeyed(Take(keyed, Len(keyed) - 1)), keyed[Len(keyed)])

RECURSIVE Keyed(_)
Keyed(cidrs) ==
    IF cidrs = <<>> THEN <<>>
    ELSE <<<<CidrKey(Head(cidrs)), Head(cidrs)>>>> \o Keyed(Tail(cidrs))

RECURSIVE Values(_)
Values(keyed) ==
    IF keyed = <<>> THEN <<>> ELSE <<Head(keyed)[2]>> \o Values(Tail(keyed))

\* geoip.py sort_ip_cidrs
sort_ip_cidrs(cidrs) == Values(SortKeyed(Keyed(cidrs)))

NoLists ==
    [domains |-> <<>>, domain_suffixes |-> <<>>, ipv4_cidrs |-> <<>>,
     ipv6_cidrs |-> <<>>, ip_cidrs |-> <<>>]

\* The return statement of the extractor; order4 and order6 are list(set) of
\* the two sets of geoip.py.
SortedLists(fn, rs, order4, order6) ==
    CASE fn \in DomainExtractors ->
            [NoLists EXCEPT !.domains = SortStrings(rs.domains),
                !.domain_suffixes = SortStrings(rs.domain_suffixes)]
      [] fn = "extract_ip_cidrs" ->
            [NoLists EXCEPT !.ipv4_cidrs = sort_ip_cidrs(order4),
                !.ipv6_cidrs = sort_ip_cidrs(order6)]
      [] fn = "process_ip_urls" ->
            [NoLists EXCEPT !.ip_cidrs = SortStrings(rs.ip_cidrs)]

Prefixed(kw, values) == [i \in 1..Len(values) |-> kw \o values[i]]

\* write_list of geosite.py and of geoip.py: the lines of the file.
write_list(fn, lists) ==
    IF fn = "extract_domains"
    THEN Prefixed(KwDomain, lists.domains)
            \o Prefixed(KwDomainSuffix, lists.domain_suffixes)
    ELSE Prefixed(KwIpCidrLine, lists.ipv4_cidrs)
            \o Prefixed(KwIpCidr6Line, lists.ipv6_cidrs)

\* The extractors that have a write_list to read back with their own classifier.
ListWriters == {"extract_domains", "extract_ip_cidrs"}

\* The rule object of the JSON document, a mapping from its keys: write_json
\* of geosite.py and write_domain_json of generate.py, write_json of geoip.py,
\* write_ip_json of generate.py.
JsonRule(fn, lists) ==
    CASE fn \in DomainExtractors ->
            [domain |-> lists.domains, domain_suffix |-> lists.domain_suffixes]
      [] fn = "extract_ip_cidrs" ->
            [ip_cidr |-> lists.ipv4_cidrs \o lists.ipv6_cidrs]
      [] fn = "process_ip_urls" ->
            [ip_cidr |-> lists.ip_cidrs]

\* data of write_json: {"version": 1, "rules": [{...}]}
write_json(fn, lists) == [version |-> 1, rules |-> <<JsonRule(fn, lists)>>]

-----------------------------------------------------------------------------
(* One run of an extractor                                                 *)

\* Most sources of a job, and most lines of a source.
MaxUrls == 2
MaxDocLines == 1

\* Input lines of the domain extractors: one per rule of the classifiers, and
\* values that are not valid domains.
DomainSampleLines ==
    { \* a.aa
      <<"a", ".", "a", "a">>,
      \* DOMAIN,a.aa
      <<"D", "O", "M", "A", "I", "N", ",", "a", ".", "a", "a">>,
      \* .Z.aa
      <<".", "Z", ".", "a", "a">>,
      \* DOMAIN,-
      <<"D", "O", "M", "A", "I", "N", ",", "-">>,
      \* .
      <<".">>,
      \* server=/a.aa /
      <<"s", "e", "r", "v", "e", "r", "=", "/", "a", ".", "a", "a", " ", "/">> }

\* Input lines of the IP extractors.
IpSampleLines ==
    { \* 9.0.0.0/8
      <<"9", ".", "0", ".", "0", ".", "0", "/", "8">>,
      \* IP-CIDR,10.0.0.0/8
      <<"I", "P", "-", "C", "I", "D", "R", ",", "1", "0", ".", "0", ".", "0", ".", "0", "/", "8">>,
      \* 10.0.0.0/08
      <<"1", "0", ".", "0", ".", "0", ".", "0", "/", "0", "8">>,
      \* x::/0
      <<"x", ":", ":", "/", "0">>,
      \* IP-CIDR6,2001:0:0:0:0:0:0:0/16
      <<"I", "P", "-", "C", "I", "D", "R", "6", ",", "2", "0", "0", "1", ":", "0", ":", "0", ":", "0", ":", "0", ":", "0", ":", "0", ":", "0", "/", "1", "6">>,
      \* # 1.0.0.0/8
      <<"#", " ", "1", ".", "0", ".", "0", ".", "0", "/", "8">> }

SampleLines(fn) ==
    IF fn \in DomainExtractors THEN DomainSampleLines ELSE IpSampleLines

\* LineEntries of the sample lines, evaluated once.
SampleEntries ==
    { <<fn, l, LineEntries(fn, l)>> : fn \in Extractors, l \in DomainSampleLines \cup IpSampleLines }

Classified(fn, l) ==
    IF l \in DomainSampleLines \cup IpSampleLines
    THEN (CHOOSE r \in SampleEntries : r[1] = fn /\ r[2] = l)[3]
    ELSE LineEntries(fn, l)

\* for line in lines: classify and merge.
RECURSIVE FoldLines(_, _, _)
FoldLines(fn, rs, lines) ==
    IF lines = <<>> THEN rs
    ELSE FoldLines(fn, Merge(rs, Classified(fn, Head(lines))), Tail(lines))

\* The body of `for url in urls`: geoip.py removes comments first.
FoldSource(fn, rs, doc) ==
    FoldLines(fn, rs, IF fn = "extract_ip_cidrs" THEN remove_comments(doc) ELSE doc)

RECURSIVE SeqsUpTo(_, _)
SeqsUpTo(s, n) ==
    IF n = 0 THEN {<<>>}
    ELSE LET shorter == SeqsUpTo(s, n - 1)
         IN  shorter \cup { Append(q, x) : q \in shorter, x \in s }

\* What a source can hold: fetch_content(url) or url.splitlines(); a source
\* that could not be fetched holds no line.
DomainDocs == SeqsUpTo(DomainSampleLines, MaxDocLines)
IpDocs == SeqsUpTo(IpSampleLines, MaxDocLines)
Docs(fn) == IF fn \in DomainExtractors THEN DomainDocs ELSE IpDocs

InitExtract ==
    /\ IdleClassify
    /\ IdleClassifyIp
    /\ IdleFetch
    /\ IdleDriver
    /\ extractor \in Extractors
    /\ ex_pc = "fold"
    /\ url_i = 0
    /\ rule_set = EmptyRuleSet
    /\ before_fold = EmptyRuleSet
    /\ last_doc = <<>>
    /\ repeated = FALSE
    /\ sorted_out = NotSorted
    /\ sorted_again = NotSorted
    /\ list_file = <<>>
    /\ reparsed = EmptyRuleSet
    /\ json_doc = NotWritten

\* The last source folded held an entry the sets already had.
Absorbed ==
    LET entries == FoldSource(extractor, EmptyRuleSet, last_doc)
    IN  \E f \in DOMAIN entries : before_fold[f] \cap entries[f] # {}

\* One turn of `for url in urls`: the lines of the source are classified and
\* merged into the sets.
FoldUrl ==
    /\ ex_pc = "fold"
    /\ url_i < MaxUrls
    /\ \E doc \in Docs(extractor) :
        /\ rule_set' = FoldSource(extractor, rule_set, doc)
        /\ before_fold' = rule_set
        /\ last_doc' = doc
        /\ repeated' = (url_i > 0 /\ doc = last_doc)
    /\ url_i' = url_i + 1
    /\ UNCHANGED <<extractor, ex_pc, sorted_out, sorted_again, list_file, reparsed>>
    /\ UNCHANGED json_doc
    /\ UNCHANGED notExtractVars

\* The urls are exhausted: the extractor returns its sorted lists.
ReturnSorted ==
    /\ ex_pc = "fold"
    /\ \E o4 \in Orders(rule_set.ipv4_cidrs), o6 \in Orders(rule_set.ipv6_cidrs) :
        sorted_out' = [run |-> TRUE, lists |-> SortedLists(extractor, rule_set, o4, o6)]
    /\ ex_pc' = "sorted"
    /\ UNCHANGED <<extractor, url_i, rule_set, before_fold, last_doc, repeated,
                   sorted_again, list_file, reparsed>>
    /\ UNCHANGED json_doc
    /\ UNCHANGED notExtractVars

\* Another run of the program reaches the same sets and sorts them.
SortAgain ==
    /\ ex_pc = "sorted"
    /\ \E o4 \in Orders(rule_set.ipv4_cidrs), o6 \in Orders(rule_set.ipv6_cidrs) :
        sorted_again' = [run |-> TRUE, lists |-> SortedLists(extractor, rule_set, o4, o6)]
    /\ ex_pc' = "again"
    /\ UNCHANGED <<extractor, url_i, rule_set, before_fold, last_doc, repeated,
                   sorted_out, list_file, reparsed>>
    /\ UNCHANGED json_doc
    /\ UNCHANGED notExtractVars

\* write_list(...) writes the list file from the sorted lists.
WriteList ==
    /\ ex_pc = "again"
    /\ extractor \in ListWriters
    /\ list_file' = write_list(extractor, sorted_out.lists)
    /\ ex_pc' = "written"
    /\ UNCHANGED <<extractor, url_i, rule_set, before_fold, last_doc, repeated,
                   sorted_out, sorted_again, reparsed>>
    /\ UNCHANGED json_doc
    /\ UNCHANGED notExtractVars

\* Every line of the list file is classified and aggregated again.
Reclassify ==
    /\ ex_pc = "written"
    /\ reparsed' = FoldSource(extractor, EmptyRuleSet, list_file)
    /\ ex_pc' = "reparsed"
    /\ UNCHANGED <<extractor, url_i, rule_set, before_fold, last_doc, repeated,
                   sorted_out, sorted_again, list_file>>
    /\ UNCHANGED json_doc
    /\ UNCHANGED notExtractVars

\* The lists are not all empty (`if not domains and not domain_suffixes`
\* of process_urls, `if domains or domain_suffixes` of main): write_json(...)
\* writes the JSON document from the sorted lists.
WriteJson ==
    /\ ex_pc = "again"
    /\ \E f \in DOMAIN rule_set : rule_set[f] # {}
    /\ json_doc' = [run |-> TRUE, doc |-> write_json(extractor, sorted_out.lists)]
    /\ ex_pc' = "encoded"
    /\ UNCHANGED <<extractor, url_i, rule_set, before_fold, last_doc, repeated,
                   sorted_out, sorted_again, list_file, reparsed>>
    /\ UNCHANGED notExtractVars

NextExtract ==
    FoldUrl \/ ReturnSorted \/ SortAgain \/ WriteList \/ Reclassify \/ WriteJson

-----------------------------------------------------------------------------
(* Properties of the extractors                                            *)

\* Normalized form of a stored domain value: non-empty, lowercase, no leading
\* "." or "+.", no trailing dot.
IsNormalized(v) ==
    /\ v # <<>>
    /\ \A i \in 1..Len(v) : v[i] \notin UpperChars
    /\ v[1] # "."
    /\ ~StartsWith(v, <<"+", ".">>)
    /\ v[Len(v)] # "."

\* C2: every value held in the Domain set or the DomainSuffix set passes the
\* domain validity pattern and is in normalized form, after folding any
\* sequence of lines (so a line whose value fails validation adds nothing).
C2_StoredDomainsValidAndNormalized ==
    \A v \in rule_set.domains \cup rule_set.domain_suffixes :
        is_valid_domain(v) /\ IsNormalized(v)

\* C2, the case reached: a domain extractor has folded a source and holds an
\* entry.
C2_DomainStored ==
    /\ extractor \in DomainExtractors
    /\ url_i > 0
    /\ rule_set.domains \cup rule_set.domain_suffixes # {}

\* C3: writing the sets with write_list and classifying and aggregating every
\* written line again yields exactly the sets written.
C3_ListRoundTrip == ex_pc = "reparsed" => reparsed = rule_set

\* C3, the case reached: a non-empty list file has been classified again.
C3_ListReclassified == ex_pc = "reparsed" /\ list_file # <<>>

\* C4: the sorted sequences handed to the encoders are the same on every run
\* over the same sets, whatever order the sets are iterated in.
C4_SortedTheSameOnEveryRun ==
    sorted_again.run => sorted_again.lists = sorted_out.lists

\* C4, the case reached: sort_ip_cidrs has sorted, twice, a set that holds two
\* different strings with the same key.
C4_TieSortedTwice ==
    /\ sorted_again.run
    /\ extractor = "extract_ip_cidrs"
    /\ \E x, y \in rule_set.ipv4_cidrs : x # y /\ CidrKey(x) = CidrKey(y)

IpExtractors == {"extract_ip_cidrs", "process_ip_urls"}

\* The sequence an IP pipeline hands to its encoders: ipv4_cidrs + ipv6_cidrs
\* of geoip.py, ip_cidrs of generate.py.
CombinedIpList(lists) == lists.ipv4_cidrs \o lists.ipv6_cidrs \o lists.ip_cidrs

\* Ordered by family, IPv4 first, and within a family by (network address,
\* prefix length) ascending.
IsCanonicalIpOrder(seq) ==
    \A i, j \in 1..Len(seq) :
        i < j =>
            LET a == ip_network(seq[i])
                b == ip_network(seq[j])
            IN  /\ a.ok /\ b.ok
                /\ a.family <= b.family
                /\ a.family = b.family =>
                    ~KeyLess(<<b.network_address, b.prefixlen>>,
                             <<a.network_address, a.prefixlen>>)

\* C5: the sequence every IP pipeline hands to its encoders is ordered by
\* network address as an integer, then by prefix length, within a family, and
\* every IPv4 entry precedes every IPv6 entry.
C5_IpListInCanonicalOrder ==
    (sorted_out.run /\ extractor \in IpExtractors)
        => IsCanonicalIpOrder(CombinedIpList(sorted_out.lists))

\* C5, the case reached: an IP extractor returned a list of several entries.
C5_SeveralCidrsSorted ==
    /\ sorted_out.run
    /\ extractor \in IpExtractors
    /\ Len(CombinedIpList(sorted_out.lists)) >= 2

NoDuplicates(seq) == \A i, j \in 1..Len(seq) : i # j => seq[i] # seq[j]

\* C6: folding the same source twice yields the sets that folding it once
\* yields, and every entry of the sets occurs exactly once in the sorted
\* output, also when several sources held it.
C6_AggregationHasSetSemantics ==
    /\ repeated => rule_set = before_fold
    /\ sorted_out.run =>
        \A f \in DOMAIN rule_set :
            /\ NoDuplicates(sorted_out.lists[f])
            /\ Range(sorted_out.lists[f]) = rule_set[f]

\* C6, the case reached: the same source was folded twice in a row, it held an
\* entry, and the sorted output was produced.
C6_SourceFoldedTwiceAndSorted ==
    /\ sorted_out.run
    /\ repeated
    /\ Absorbed
    /\ rule_set # EmptyRuleSet

\* C12: for every rule set that is written, the JSON document is the envelope
\* {"version": 1, "rules": [{...}]} whose one rule object has the key "domain"
\* only if the Domain set is non-empty and the key "domain_suffix" only if
\* the DomainSuffix set is non-empty. For write_json of geosite.py and
\* write_domain_json of generate.py.
C12_JsonKeyOnlyForNonEmptyCategory ==
    (json_doc.run /\ extractor \in DomainExtractors) =>
        /\ DOMAIN json_doc.doc = {"version", "rules"}
        /\ json_doc.doc.version = 1
        /\ Len(json_doc.doc.rules) = 1
        /\ "domain" \in DOMAIN json_doc.doc.rules[1] => rule_set.domains # {}
        /\ "domain_suffix" \in DOMAIN json_doc.doc.rules[1] =>
                rule_set.domain_suffixes # {}

\* C12, the case reached: a rule set with one of the two categories empty
\* has been written as JSON.
C12_OneCategoryEmptyWritten ==
    /\ json_doc.run
    /\ extractor \in DomainExtractors
    /\ (rule_set.domains = {}) # (rule_set.domain_suffixes = {})

-----------------------------------------------------------------------------
(* fetch_content of geosite.py and geoip.py                                *)

\* Largest max_retries a call is made with.
MaxRetries == 3

\* How an attempt can fail: urlopen raises HTTPError for an error status and
\* URLError for a failed connection; a read that times out raises TimeoutError
\* out of response.read(), and a body that is not UTF-8 raises
\* UnicodeDecodeError out of decode('utf-8').
FailureKinds == {"HTTPError", "URLError", "TimeoutError", "UnicodeDecodeError"}

\* except (HTTPError, URLError)
CaughtKinds == {"HTTPError", "URLError"}

\* The documents a url can serve.
FetchDocs == DomainDocs \cup IpDocs

\* `for attempt in range(max_retries)` evaluated for the first time: an empty
\* range falls through to the final `return []`.
EnterLoop(retries) == IF retries > 0 THEN "try" ELSE "returned"

InitFetch ==
    /\ IdleClassify
    /\ IdleClassifyIp
    /\ IdleExtract
    /\ IdleDriver
    /\ max_retries \in 0..MaxRetries
    /\ fetch_pc = EnterLoop(max_retries)
    /\ attempt = 0
    /\ url_doc \in FetchDocs
    /\ tried = <<>>
    /\ slept = <<>>
    /\ fetch_lines = <<>>

\* The attempt succeeds: return response.read().decode('utf-8').splitlines()
AttemptSucceeds ==
    /\ fetch_pc = "try"
    /\ tried' = Append(tried, "ok")
    /\ fetch_lines' = url_doc
    /\ fetch_pc' = "returned"
    /\ UNCHANGED <<max_retries, attempt, url_doc, slept>>
    /\ UNCHANGED notFetchVars

\* The time.sleep after the except clause, skipped by its return.
SleepUnlessLast(log, n, retries) ==
    IF n = retries - 1 THEN log ELSE Append(log, Pow2(n))

\* The attempt raises an exception the except clause names: on the last
\* attempt return [], otherwise time.sleep(2 ** attempt) and loop.
AttemptFails ==
    /\ fetch_pc = "try"
    /\ \E kind \in CaughtKinds : tried' = Append(tried, kind)
    /\ slept' = SleepUnlessLast(slept, attempt, max_retries)
    /\ IF attempt = max_retries - 1
       THEN /\ fetch_lines' = <<>>
            /\ fetch_pc' = "returned"
            /\ attempt' = attempt
       ELSE /\ attempt' = attempt + 1
            /\ UNCHANGED <<fetch_lines, fetch_pc>>
    /\ UNCHANGED <<max_retries, url_doc>>
    /\ UNCHANGED notFetchVars

\* The attempt raises an exception the except clause does not name: it
\* leaves fetch_content.
AttemptRaises ==
    /\ fetch_pc = "try"
    /\ \E kind \in FailureKinds \ CaughtKinds : tried' = Append(tried, kind)
    /\ fetch_pc' = "raised"
    /\ UNCHANGED <<max_retries, attempt, url_doc, slept, fetch_lines>>
    /\ UNCHANGED notFetchVars

NextFetch == AttemptSucceeds \/ AttemptFails \/ AttemptRaises

\* The attempts that failed and were not the last attempt allowed.
FailedBeforeLast ==
    { i \in 1..Len(tried) : tried[i] # "ok" /\ i - 1 < max_retries - 1 }

\* C10: fetch_content makes at most max_retries attempts, none after a
\* successful one; it returns the lines of the successful attempt; after
\* failed attempt k (from 0) that is not the last one it has waited 2^k
\* seconds; after the last failed attempt it returns an empty document
\* without waiting.
C10_BoundedRetryWithBackoff ==
    /\ Len(tried) <= max_retries
    /\ \A i \in 1..(Len(tried) - 1) : tried[i] # "ok"
    /\ fetch_pc # "try" =>
        /\ fetch_pc = "returned"
        /\ fetch_lines =
             IF \E i \in 1..Len(tried) : tried[i] = "ok" THEN url_doc ELSE <<>>
        /\ slept = [k \in 1..Cardinality(FailedBeforeLast) |-> Pow2(k - 1)]
    /\ fetch_pc = "try" => slept = [k \in 1..Len(tried) |-> Pow2(k - 1)]

\* C10, the case reached: every attempt allowed has failed, with waits
\* between them, and the call is over.
C10_RetriesExhausted ==
    /\ fetch_pc = "returned"
    /\ max_retries >= 2
    /\ Len(tried) = max_retries
    /\ tried[Len(tried)] # "ok"

-----------------------------------------------------------------------------
(* process_urls(config), called from main, in geosite.py and geoip.py      *)

\* Most jobs of a config, and most sources of a job.
MaxJobs == 2
MaxSources == 2

\* fetch_content(url) is called with the default max_retries.
DefaultMaxRetries == 3

Scripts == {"geosite", "geoip"}

ExtractorOf(s) == IF s = "geosite" THEN "extract_domains" ELSE "extract_ip_cidrs"

\* The write_* calls of process_urls, in order, by the extension written.
Writers(s) ==
    IF s = "geosite" THEN <<"json", "list", "txt", "yaml", "snippet">>
    ELSE <<"json", "list", "txt", "yaml">>

Extensions == {"json", "list", "txt", "yaml", "snippet", "srs", "mrs"}

Jobs == 1..MaxJobs

NoFiles == [f \in Jobs \X Extensions |-> "absent"]

\* The output directory when the program starts: the files of the bases in
\* `old` are there already, left by an earlier run or put there by another
\* program (main of geosite.py downloads .json and .yaml files into
\* rule-set/). A base beyond n_jobs is a file of no job of this config.
FilesBefore(s, old) ==
    [f \in Jobs \X Extensions |->
        IF f[1] \in old /\ f[2] \in Range(Writers(s)) THEN "old" ELSE NoFiles[f]]

\* What the sources of a job can hold: nothing, a line with an entry, a line
\* without one.
RunDocs(s) ==
    IF s = "geosite"
    THEN { <<>>,
           \* a.aa
           << <<"a", ".", "a", "a">> >>,
           \* .Z.aa
           << <<".", "Z", ".", "a", "a">> >>,
           \* # 1.0.0.0/8
           << <<"#", " ", "1", ".", "0", ".", "0", ".", "0", "/", "8">> >> }
    ELSE { <<>>,
           \* 9.0.0.0/8
           << <<"9", ".", "0", ".", "0", ".", "0", "/", "8">> >>,
           \* x::/0
           << <<"x", ":", ":", "/", "0">> >>,
           \* # 1.0.0.0/8
           << <<"#", " ", "1", ".", "0", ".", "0", ".", "0", "/", "8">> >> }

\* `not domains and not domain_suffixes`, `not ipv4_cidrs and not ipv6_cidrs`
IsEmptyResult(rs) == \A f \in DOMAIN rs : rs[f] = {}

InitRun ==
    /\ IdleClassify
    /\ IdleClassifyIp
    /\ IdleExtract
    /\ IdleFetch
    /\ script \in Scripts
    /\ n_jobs \in 1..MaxJobs
    /\ job = 1
    /\ job_named = FALSE
    /\ run_pc = "for_job"
    /\ n_urls = 0
    /\ url_j = 0
    /\ job_rule_set = EmptyRuleSet
    /\ expected = EmptyRuleSet
    /\ write_k = 0
    /\ fs \in { FilesBefore(script, old) : old \in SUBSET Jobs }
    /\ job_log = <<>>
    /\ compiled = {}

\* How a job ended.
Ended(outcome) == [outcome |-> outcome, named |-> job_named]

\* `for output_base, urls in config.items()`: the next job; its extractor
\* starts with empty sets.
StartJob ==
    /\ run_pc = "for_job"
    /\ job <= n_jobs
    /\ n_urls' \in 0..MaxSources
    /\ job_named' \in BOOLEAN
    /\ url_j' = 0
    /\ job_rule_set' = EmptyRuleSet
    /\ expected' = EmptyRuleSet
    /\ run_pc' = "for_url"
    /\ UNCHANGED <<script, n_jobs, job, write_k, fs, job_log, compiled>>
    /\ UNCHANGED fetchVars
    /\ UNCHANGED notRunVars

\* `for url in urls`, url.startswith('http'): fetch_content(url) is called.
CallFetch ==
    /\ run_pc = "for_url"
    /\ url_j < n_urls
    /\ url_doc' \in RunDocs(script)
    /\ max_retries' = DefaultMaxRetries
    /\ fetch_pc' = EnterLoop(DefaultMaxRetries)
    /\ attempt' = 0
    /\ tried' = <<>>
    /\ slept' = <<>>
    /\ fetch_lines' = <<>>
    /\ run_pc' = "fetching"
    /\ UNCHANGED <<script, n_jobs, job, job_named, n_urls, url_j, job_rule_set,
                   expected, write_k, fs, job_log, compiled>>
    /\ UNCHANGED notRunVars

\* `for url in urls`, the url is not http: url.splitlines() is classified
\* and merged.
InlineSource ==
    /\ run_pc = "for_url"
    /\ url_j < n_urls
    /\ \E doc \in RunDocs(script) :
        /\ job_rule_set' = FoldSource(ExtractorOf(script), job_rule_set, doc)
        /\ expected' = FoldSource(ExtractorOf(script), expected, doc)
    /\ url_j' = url_j + 1
    /\ UNCHANGED <<script, n_jobs, job, job_named, run_pc, n_urls, write_k, fs,
                   job_log, compiled>>
    /\ UNCHANGED fetchVars
    /\ UNCHANGED notRunVars

\* The source was retrieved: an attempt of the call ended well.
Retrieved == tried # <<>> /\ tried[Len(tried)] = "ok"

\* fetch_content returned: its lines are classified and merged.
FoldFetched ==
    /\ run_pc = "fetching"
    /\ fetch_pc = "returned"
    /\ job_rule_set' = FoldSource(ExtractorOf(script), job_rule_set, fetch_lines)
    /\ expected' =
         IF Retrieved THEN FoldSource(ExtractorOf(script), expected, url_doc)
         ELSE expected
    /\ url_j' = url_j + 1
    /\ run_pc' = "for_url"
    /\ fetch_pc' = "idle"
    /\ max_retries' = 0
    /\ attempt' = 0
    /\ url_doc' = <<>>
    /\ tried' = <<>>
    /\ slept' = <<>>
    /\ fetch_lines' = <<>>
    /\ UNCHANGED <<script, n_jobs, job, job_named, n_urls, write_k, fs,
                   job_log, compiled>>
    /\ UNCHANGED notRunVars

\* fetch_content raised: nothing between it and the interpreter catches the
\* exception, and the program ends with a traceback.
FetchAborts ==
    /\ run_pc = "fetching"
    /\ fetch_pc = "raised"
    /\ job_log' = Append(job_log, Ended("fetch raised"))
    /\ run_pc' = "aborted"
    /\ UNCHANGED <<script, n_jobs, job, job_named, n_urls, url_j, job_rule_set,
                   expected, write_k, fs, compiled>>
    /\ UNCHANGED fetchVars
    /\ UNCHANGED notRunVars

\* The extractor returned two empty lists: the warning is printed and the
\* loop continues with the next job.
WarnEmpty ==
    /\ run_pc = "for_url"
    /\ url_j = n_urls
    /\ IsEmptyResult(job_rule_set)
    /\ job_log' = Append(job_log, Ended("empty"))
    /\ job' = job + 1
    /\ run_pc' = "for_job"
    /\ UNCHANGED <<script, n_jobs, job_named, n_urls, url_j, job_rule_set,
                   expected, write_k, fs, compiled>>
    /\ UNCHANGED fetchVars
    /\ UNCHANGED notRunVars

\* The extractor returned entries: os.makedirs(directory, exist_ok=True).
MakeDirs ==
    /\ run_pc = "for_url"
    /\ url_j = n_urls
    /\ ~IsEmptyResult(job_rule_set)
    /\ write_k' = 1
    /\ run_pc' = "write"
    /\ UNCHANGED <<script, n_jobs, job, job_named, n_urls, url_j, job_rule_set,
                   expected, fs, job_log, compiled>>
    /\ UNCHANGED fetchVars
    /\ UNCHANGED notRunVars

\* os.makedirs raises OSError (the directory cannot be created, or
\* output_base has no directory part): the program ends with a traceback.
MakeDirsFails ==
    /\ run_pc = "for_url"
    /\ url_j = n_urls
    /\ ~IsEmptyResult(job_rule_set)
    /\ job_log' = Append(job_log, Ended("makedirs raised"))
    /\ run_pc' = "aborted"
    /\ UNCHANGED <<script, n_jobs, job, job_named, n_urls, url_j, job_rule_set,
                   expected, write_k, fs, compiled>>
    /\ UNCHANGED fetchVars
    /\ UNCHANGED notRunVars

\* The job is over: "Successfully generated files" is printed and the loop
\* goes to the next job.
JobGenerated ==
    /\ job_log' = Append(job_log, Ended("generated"))
    /\ job' = job + 1
    /\ run_pc' = "for_job"

\* The next write_* call of the job writes its file.
WriteFile ==
    /\ run_pc = "write"
    /\ fs' = [fs EXCEPT ![<<job, Writers(script)[write_k]>>] = "written"]
    /\ write_k' = write_k + 1
    /\ IF write_k < Len(Writers(script))
       THEN UNCHANGED <<job_log, job, run_pc>>
       ELSE IF script = "geosite"
            THEN run_pc' = "convert_srs" /\ UNCHANGED <<job_log, job>>
            ELSE JobGenerated
    /\ UNCHANGED <<script, n_jobs, job_named, n_urls, url_j, job_rule_set,
                   expected, compiled>>
    /\ UNCHANGED fetchVars
    /\ UNCHANGED notRunVars

\* The next write_* call raises OSError, from open() with the file as it was
\* or from a write with the file partly written; no caller catches it and the
\* program ends with a traceback.
WriteFails ==
    /\ run_pc = "write"
    /\ \E left \in {fs[<<job, Writers(script)[write_k]>>], "partial"} :
        fs' = [fs EXCEPT ![<<job, Writers(script)[write_k]>>] = left]
    /\ job_log' = Append(job_log, Ended("write raised"))
    /\ run_pc' = "aborted"
    /\ UNCHANGED <<script, n_jobs, job, job_named, n_urls, url_j, job_rule_set,
                   expected, write_k, compiled>>
    /\ UNCHANGED fetchVars
    /\ UNCHANGED notRunVars

\* geosite.py convert_to_srs(f"{output_base}.json"): sing-box is run when
\* 'geosite' is in the file name.
ConvertToSrs ==
    /\ run_pc = "convert_srs"
    /\ IF job_named
       THEN /\ compiled' = compiled \cup {<<job, "json">>}
            /\ \E ok \in BOOLEAN :
                fs' = IF ok THEN [fs EXCEPT ![<<job, "srs">>] = "written"] ELSE fs
       ELSE UNCHANGED <<compiled, fs>>
    /\ run_pc' = "convert_mrs"
    /\ UNCHANGED <<script, n_jobs, job, job_named, n_urls, url_j, job_rule_set,
                   expected, write_k, job_log>>
    /\ UNCHANGED fetchVars
    /\ UNCHANGED notRunVars

\* geosite.py convert_to_mrs(f"{output_base}.yaml"), then the job is over.
ConvertToMrs ==
    /\ run_pc = "convert_mrs"
    /\ IF job_named
       THEN /\ compiled' = compiled \cup {<<job, "yaml">>}
            /\ \E ok \in BOOLEAN :
                fs' = IF ok THEN [fs EXCEPT ![<<job, "mrs">>] = "written"] ELSE fs
       ELSE UNCHANGED <<compiled, fs>>
    /\ JobGenerated
    /\ UNCHANGED <<script, n_jobs, job_named, n_urls, url_j, job_rule_set,
                   expected, write_k>>
    /\ UNCHANGED fetchVars
    /\ UNCHANGED notRunVars

\* config.items() is exhausted: process_urls returns to main, which goes on
\* to convert_files() in geoip.py.
EndOfJobs ==
    /\ run_pc = "for_job"
    /\ job > n_jobs
    /\ run_pc' = IF script = "geoip" THEN "convert_files" ELSE "done"
    /\ UNCHANGED <<script, n_jobs, job, job_named, n_urls, url_j, job_rule_set,
                   expected, write_k, fs, job_log, compiled>>
    /\ UNCHANGED fetchVars
    /\ UNCHANGED notRunVars

\* glob.glob('rule-set/**/*.json') and '.yaml': the files found under
\* rule-set/, whoever wrote them.
Globbed(ext) ==
    { j \in Jobs :
        /\ fs[<<j, ext>>] # "absent"
        /\ j <= Len(job_log) => job_log[j].named }

\* geoip.py convert_files(): every .json found is compiled to .srs and every
\* .yaml to .mrs; a compiler that fails leaves no file.
ConvertFiles ==
    /\ run_pc = "convert_files"
    /\ compiled' = compiled \cup { <<j, "json">> : j \in Globbed("json") }
                            \cup { <<j, "yaml">> : j \in Globbed("yaml") }
    /\ \E srs \in SUBSET Globbed("json"), mrs \in SUBSET Globbed("yaml") :
        fs' = [f \in Jobs \X Extensions |->
                 IF \/ f[2] = "srs" /\ f[1] \in srs
                    \/ f[2] = "mrs" /\ f[1] \in mrs
                 THEN "written" ELSE fs[f]]
    /\ run_pc' = "done"
    /\ UNCHANGED <<script, n_jobs, job, job_named, n_urls, url_j, job_rule_set,
                   expected, write_k, job_log>>
    /\ UNCHANGED fetchVars
    /\ UNCHANGED notRunVars

NextRun ==
    \/ StartJob \/ CallFetch \/ InlineSource
    \/ AttemptSucceeds \/ AttemptFails \/ AttemptRaises
    \/ FoldFetched \/ FetchAborts
    \/ WarnEmpty \/ MakeDirs \/ MakeDirsFails
    \/ WriteFile \/ WriteFails
    \/ ConvertToSrs \/ ConvertToMrs
    \/ EndOfJobs \/ ConvertFiles

-----------------------------------------------------------------------------
(* Properties of a run                                                     *)

\* main has returned or has ended with a traceback.
RunOver == run_pc \in {"done", "aborted"}

\* The files process_urls writes for a job.
OutputFiles(s) == Range(Writers(s))

\* None of .json, .list, .txt, .yaml, .snippet of the job is written by this
\* run.
NoneWritten(j) ==
    \A e \in Extensions \ {"srs", "mrs"} : fs[<<j, e>>] \in {"absent", "old"}
AllWritten(j) == \A e \in OutputFiles(script) : fs[<<j, e>>] = "written"

\* C7: a job whose sources all fail to fetch or yield no entry ends with the
\* empty-result warning and none of its files written; every other job of
\* the run is still processed and, when it has entries, gets all of its
\* output files; how a job ends depends on its own sources only.
C7_EmptyJobLeavesOthersAlone ==
    /\ \A j \in 1..Len(job_log) :
        /\ job_log[j].outcome = "empty" => NoneWritten(j)
        /\ job_log[j].outcome = "generated" => AllWritten(j)
    /\ (run_pc = "for_job" /\ job_log # <<>>) =>
        /\ job_rule_set = expected
        /\ job_log[Len(job_log)].outcome =
             IF IsEmptyResult(expected) THEN "empty" ELSE "generated"
    /\ RunOver =>
        /\ Len(job_log) = n_jobs
        /\ \A j \in 1..n_jobs : job_log[j].outcome \in {"empty", "generated"}

\* C7, the case reached: the first job ended with the warning and the second
\* one got its files.
C7_EmptyJobThenGeneratedJob ==
    /\ RunOver
    /\ Len(job_log) = 2
    /\ job_log[1].outcome = "empty"
    /\ job_log[2].outcome = "generated"

\* C8: when a write_* call of a job raises an I/O error, the jobs after it
\* are still processed, each ending with the warning or with its files.
C8_WriteFailureStopsItsJobOnly ==
    RunOver =>
        \A j \in 1..Len(job_log) :
            job_log[j].outcome = "write raised" =>
                /\ Len(job_log) = n_jobs
                /\ \A k \in (j + 1)..n_jobs :
                    job_log[k].outcome \in {"empty", "generated"}

\* C8, the case reached: a write of a job raised while another job was still
\* to come.
C8_WriteRaisedBeforeLastJob ==
    /\ job_log # <<>>
    /\ job_log[Len(job_log)].outcome = "write raised"
    /\ Len(job_log) < n_jobs

\* C9: whatever the kind of failure, fetch_content returns instead of
\* raising, the job goes on, and between sources the sets of the job are the
\* merge of exactly the documents of the sources that were retrieved.
C9_FailedSourceIsSkipped ==
    /\ fetch_pc # "raised"
    /\ \A j \in 1..Len(job_log) : job_log[j].outcome # "fetch raised"
    /\ run_pc = "for_url" => job_rule_set = expected

\* C9, the case reached: fetch_content is over for a source that could not
\* be retrieved, in a job that already holds entries of another source.
C9_SourceFailedAfterAnother ==
    /\ run_pc = "fetching"
    /\ fetch_pc \in {"returned", "raised"}
    /\ ~Retrieved
    /\ url_j >= 1
    /\ ~IsEmptyResult(job_rule_set)

\* The files the encoder of a job has written in this run.
Encoded == { f \in Jobs \X {"json", "yaml"} : fs[f] = "written" }

\* C14: an external compiler is handed a .json or .yaml file only after the
\* encoder has written that file for a job of the same run, and a job that
\* ended with an empty result hands no file to a compiler. For process_urls
\* of geosite.py and main with convert_files of geoip.py.
C14_CompilerGetsOnlyFilesOfThisRun ==
    /\ compiled \subseteq Encoded
    /\ \A j \in 1..Len(job_log) :
        job_log[j].outcome = "empty" =>
            <<j, "json">> \notin compiled /\ <<j, "yaml">> \notin compiled

\* C14, the case reached: the run is over and a compiler was handed a file.
C14_FileHandedToCompiler == run_pc = "done" /\ compiled # {}

-----------------------------------------------------------------------------
(* Specifications                                                          *)

SpecClassify == InitClassify /\ [][NextClassify]_vars

SpecClassifyIp == InitClassifyIp /\ [][NextClassifyIp]_vars

SpecExtract == InitExtract /\ [][NextExtract]_vars

SpecFetch == InitFetch /\ [][NextFetch]_vars

SpecRun == InitRun /\ [][NextRun]_vars

====
